---- MODULE Spec2Model ----
(***************************************************************************)
(* Model of the book compilation pipeline of agitnt:                       *)
(*   src/compiler_agent.py  CompilerAgent (discovery, assembler, build     *)
(*                          orchestrator, publisher, process_book)         *)
(*   src/github_agent.py    GitHubAgent (the store adapter)                *)
(*                                                                         *)
(* Text is modelled as a sequence of tokens.  Each token stands for one    *)
(* substring the code searches for or generates; str.find, slicing,        *)
(* re.sub and str.strip are computed on the token sequence the way the     *)
(* code computes them on characters.                                       *)
(***************************************************************************)
EXTENDS Integers, Sequences, FiniteSets, TLC

VARIABLES
    pc,              \* position of the caller / of process_book
    config,          \* self.config
    storeMain,       \* the main file in the store on the source branch
    storeChapters,   \* chapter files in the store: file -> "absent" | "empty" | "text"
    storeSupport,    \* support files the store holds on the source branch
    branches,        \* branches of the store
    storeFiles,      \* files written to the store: set of <<branch, path>>
    storeCalls,      \* adapter methods called so far
    dirs,            \* temporary directories that exist on disk
    work_dir,        \* self.work_dir
    main,            \* the main file in the working area
    chapters,        \* files in <work_dir>/chapters
    support,         \* support files in the working area
    pdf,             \* <work_dir>/<main_name>.pdf exists
    cwd,             \* the process working directory
    original_dir,    \* compile_book's local original_dir
    passes,          \* external commands run so far: <<[cmd, rc]>>
    run_i,           \* compile_book's loop variable i
    compile_result,  \* what compile_book returned
    compile_exit,    \* the way compile_book returned
    ret,             \* what process_book is about to return / returned
    in_handler,      \* process_book is in its except clause
    before,          \* main file content before the latest update_main_file
    updates,         \* number of successful update_main_file calls on this area
    update_ok,       \* result of the latest update_main_file
    stages,          \* what the stages of process_book returned: <<[stage, ok, why]>>
    create_answer,   \* the store's answer to create_branch's POST /git/refs
    exit_code,       \* <<>> until main() has returned, then <<its exit code>>
    chapter_requests,\* chapter paths asked of the store: <<[file, probe]>>
    writer           \* ChapterWriterAgent.process_chapter: its inputs, position, store

vars == <<pc, config, storeMain, storeChapters, storeSupport, branches, storeFiles,
          storeCalls, dirs, work_dir, main, chapters, support, pdf, cwd, original_dir,
          passes, run_i, compile_result, compile_exit, ret, in_handler, before,
          updates, update_ok, stages, create_answer, exit_code, chapter_requests,
          writer>>

----------------------------------------------------------------------------
(* Bounds *)

MaxBodyLen == 3      \* longest document body drawn for the assembler
MaxUpdates == 3      \* consecutive update_main_file runs on one working area
MaxLatexRuns == 2    \* largest configured latex_runs

(* Program constants *)

ProbeLimit == 20     \* download_all_chapters: range(1, 21)

----------------------------------------------------------------------------
(* Tokens *)

Tok(t) == [t |-> t, n |-> 0, z |-> FALSE]

BD  == Tok("BD")     \* \begin{document}
ED  == Tok("ED")     \* \end{document}
TOC == Tok("TOC")    \* \tableofcontents
NL  == Tok("NL")     \* "\n"
HDR == Tok("HDR")    \* % Generated chapter includes
X   == Tok("X")      \* any other non-blank text

\* A chapter file chapters/chapter<digits>.tex: n is int(digits), z tells
\* whether the digits carry a leading zero (chapter01.tex against chapter1.tex).
ChapterFile(n, z) == [n |-> n, z |-> z]

\* \include{chapters/chapter<digits>}
Inc(f) == [t |-> "INC", n |-> f.n, z |-> f.z]

ch1  == ChapterFile(1, FALSE)
ch01 == ChapterFile(1, TRUE)
ch2  == ChapterFile(2, FALSE)
ch3  == ChapterFile(3, FALSE)
ch21 == ChapterFile(21, FALSE)   \* an ordinal beyond range(1, 21)

ChapterUniverse == {ch1, ch01, ch2, ch3}

File(text) == [exists |-> TRUE, text |-> text]
NoFile == [exists |-> FALSE, text |-> <<>>]

----------------------------------------------------------------------------
(* String primitives on token sequences *)

\* str.find(tok, from): first position >= from holding tok, 0 when absent
\* (positions are 1-based; Python's -1 is 0 here).
Find(s, tok, from) ==
    LET hits == {k \in from..Len(s) : s[k] = tok}
    IN  IF hits = {} THEN 0 ELSE CHOOSE k \in hits : \A j \in hits : k <= j

\* s[a:b] for 1-based inclusive bounds; empty when a > b
Slice(s, a, b) == IF a > b THEN <<>> ELSE SubSeq(s, a, b)

RECURSIVE LStrip(_)
LStrip(s) == IF s # <<>> /\ Head(s) = NL THEN LStrip(Tail(s)) ELSE s

RECURSIVE RStrip(_)
RStrip(s) ==
    IF s # <<>> /\ s[Len(s)] = NL THEN RStrip(SubSeq(s, 1, Len(s) - 1)) ELSE s

\* str.strip()
Strip(s) == RStrip(LStrip(s))

IsInclude(tok) == tok.t = "INC"

\* re.sub(include_pattern, "", doc_content)
RemoveIncludes(s) == SelectSeq(s, LAMBDA tok : ~IsInclude(tok))

----------------------------------------------------------------------------
(* update_main_file *)

\* Tuple order of (chapter_num, "chapters/" + file_name): by number, then by
\* path string ("chapters/chapter01.tex" < "chapters/chapter1.tex").
ChapterLess(a, b) == a.n < b.n \/ (a.n = b.n /\ a.z /\ ~b.z)

RECURSIVE InsertSorted(_, _)
InsertSorted(f, s) ==
    IF s = <<>> THEN <<f>>
    ELSE IF ChapterLess(f, Head(s)) THEN <<f>> \o s
    ELSE <<Head(s)>> \o InsertSorted(f, Tail(s))

SortChapters_unsorted(listing) == listing

\* available_chapters.sort()
RECURSIVE SortChapters(_)
SortChapters(listing) ==
    IF listing = <<>> THEN <<>>
    ELSE InsertSorted(Head(listing), SortChapters(Tail(listing)))

\* os.listdir: the directory's entries in an arbitrary order
Listings(files) ==
    {s \in [1..Cardinality(files) -> files] :
        \A a, b \in 1..Cardinality(files) : a # b => s[a] # s[b]}

MarkersMissing_both(doc_start, doc_end) == doc_start = 0 /\ doc_end = 0

\* if doc_start == -1 or doc_end == -1
MarkersMissing(doc_start, doc_end) == doc_start = 0 \/ doc_end = 0

RECURSIVE IncludeLines(_)
IncludeLines(available_chapters) ==
    IF available_chapters = <<>> THEN <<>>
    ELSE <<Inc(Head(available_chapters)), NL>> \o IncludeLines(Tail(available_chapters))

\* chapter_includes
ChapterIncludes(available_chapters) ==
    <<NL, NL, HDR, NL>> \o IncludeLines(available_chapters)

\* The body of update_main_file from the read of the main file to new_content.
\* Result: [ok, text], text being what the main file holds afterwards.
update_main_file(content, listing) ==
    LET available_chapters == SortChapters(listing)
        doc_start == Find(content, BD, 1)
        doc_end   == Find(content, ED, 1)
    IN  IF MarkersMissing(doc_start, doc_end)
        THEN [ok |-> FALSE, text |-> content]
        ELSE
        LET preamble == Slice(content, 1, doc_start)
            body     == Slice(content, doc_start + 1, doc_end - 1)
            toc_pos  == Find(body, TOC, 1)
            nl_found == IF toc_pos = 0 THEN 0 ELSE Find(body, NL, toc_pos)
            nl_pos   == IF nl_found = 0 THEN Len(body) + 1 ELSE nl_found
            frontmatter == IF toc_pos = 0 THEN <<>>
                           ELSE Slice(body, 1, IF nl_pos > Len(body) THEN Len(body) ELSE nl_pos)
            rest     == IF toc_pos = 0 THEN body
                        ELSE Slice(body, nl_pos + 1, Len(body))
            doc_content == RemoveIncludes(rest)
            chapter_includes == ChapterIncludes(available_chapters)
            new_content == preamble \o <<NL>> \o frontmatter \o <<NL>>
                           \o chapter_includes \o <<NL>>
                           \o Strip(doc_content) \o <<NL, ED, NL>>
        IN  [ok |-> TRUE, text |-> new_content]

----------------------------------------------------------------------------
(* Names *)

None == "None"                     \* Python's None for a directory or a path
HomeDir == "home"                  \* the directory the process was started in
TempNames == {"tmp1", "tmp2", "tmp3"}      \* names tempfile.mkdtemp can hand out
OutputBranch == "compiled-output"  \* config "output_branch"
SourceBranch == "main"             \* process_book(branch="main")
PdfPath == "main.pdf"              \* <main_name>.pdf

ContentKinds == {"absent", "empty", "text"}

\* What the store answers for a chapter path
StoreContent(f) ==
    IF f \in DOMAIN storeChapters THEN storeChapters[f] ELSE "absent"

----------------------------------------------------------------------------
(* Inputs *)

\* Bodies of the documents given to the assembler
BodyToks == {NL, X, TOC, Inc(ch1)}

SeqsUpTo(S, n) == UNION {[1..k -> S] : k \in 0..n}

Pres  == {<<>>, <<BD>>, <<X, BD>>, <<ED, BD>>, <<BD, BD>>}
Posts == {<<>>, <<ED>>, <<ED, X>>, <<ED, NL, ED>>}

AsmDocs == {pre \o body \o post :
              pre \in Pres, body \in SeqsUpTo(BodyToks, MaxBodyLen), post \in Posts}

\* Main documents held by the store in the pipeline runs
StoreDocs ==
    { <<BD, NL, X, NL, ED>>,                                  \* markers, no directives
      <<X, BD, NL, TOC, NL, Inc(ch01), NL, X, NL, ED, NL>>,   \* contents and a directive
      <<X, BD, NL, X, NL>>,                                   \* end marker missing
      <<X, NL, ED>>,                                          \* begin marker missing
      <<X>>,                                                  \* no marker
      <<>> }                                                  \* empty file

Configs == [run_bibtex : BOOLEAN, latex_runs : 0..MaxLatexRuns,
            include_mode : {"LoadDefault", "Fallback"}]

----------------------------------------------------------------------------
(* Fragment discovery *)

RECURSIVE IncludedFiles(_)
IncludedFiles(s) ==
    IF s = <<>> THEN <<>>
    ELSE (IF IsInclude(Head(s)) THEN <<ChapterFile(Head(s).n, Head(s).z)>> ELSE <<>>)
         \o IncludedFiles(Tail(s))

\* re.findall(include_pattern, main_content) turned into chapter paths.  The
\* pattern of load_config's defaults captures the digits only, so the paths
\* built from it ("1.tex") are not chapter paths; the pattern used when the
\* configuration file has no include_pattern captures the whole path.
ExplicitIncludes(content, include_mode) ==
    IF include_mode = "Fallback" THEN IncludedFiles(content) ELSE <<>>

ProbedFiles_beyond == [n \in 1..(ProbeLimit + 1) |-> ChapterFile(n, FALSE)]

\* download_all_chapters: for chapter_num in range(1, 21):
\*     chapter_path = f"chapters/chapter{chapter_num}.tex"
ProbedFiles == [n \in 1..ProbeLimit |-> ChapterFile(n, FALSE)]

\* The chapter paths fetched after the main file and the support files, in order
ChapterFetches(content, include_mode) ==
    ExplicitIncludes(content, include_mode) \o ProbedFiles

\* if content: ... write the file
Saved(kind) == kind = "text"

\* Chapter files in the working area after the first k chapter fetches
Downloaded(fetches, k) ==
    {fetches[j] : j \in {i \in 1..k : Saved(StoreContent(fetches[i]))}}

\* The first k chapter requests made of the store, each with its origin: an
\* \include of the main file, or the loop of download_all_chapters
Requests(content, include_mode, k) ==
    LET fetches == ChapterFetches(content, include_mode)
        explicit == Len(ExplicitIncludes(content, include_mode))
    IN  [i \in 1..k |-> [file |-> fetches[i], probe |-> i > explicit]]

----------------------------------------------------------------------------
(* Working area *)

\* tempfile.mkdtemp: a name no existing directory has
FreshDir == CHOOSE d \in TempNames \ dirs : TRUE

\* State of process_book on its way out: run cleanup, then return r
Leave(r) == /\ pc' = "cleanup"
            /\ ret' = r

\* An exception reaches process_book's except clause
Handle == /\ pc' = "cleanup"
          /\ ret' = FALSE
          /\ in_handler' = TRUE

\* What a stage of process_book returned, and why
Stage(s, ok, why) == [stage |-> s, ok |-> ok, why |-> why]

Returned(s, ok, why) == stages' = Append(stages, Stage(s, ok, why))

----------------------------------------------------------------------------
(* The store adapter's requests *)

\* GitHubAgent._make_request: a GET leaves the store's files as they are,
\* a PUT of /contents/<path> creates or replaces the file
StoreAfterRequest(method, files, entry) ==
    IF method = "GET" THEN files ELSE files \cup {entry}

get_file_content_method_put == "PUT"

\* GitHubAgent.get_file_content: self._make_request("GET", ...)
get_file_content_method == "GET"

----------------------------------------------------------------------------
(* process_book: setup_working_directory *)

ProcessBook_setup ==
    /\ pc = "idle"
    /\ \/ /\ dirs' = dirs \cup {FreshDir}
          /\ work_dir' = FreshDir
          /\ pc' = "download"
          /\ UNCHANGED <<ret, in_handler>>
       \/ /\ Handle                       \* mkdtemp raises
          /\ UNCHANGED <<dirs, work_dir>>
    /\ UNCHANGED <<chapter_requests, writer>>
    /\ UNCHANGED <<config, storeMain, storeChapters, storeSupport, branches, storeFiles,
                   storeCalls, main, chapters, support, pdf, cwd, original_dir, passes,
                   run_i, compile_result, compile_exit, before, updates, update_ok,
                   stages, create_answer, exit_code>>

(* process_book: download_repository_files *)

\* files_to_download before the includes are added
SupportList == <<"preamble.tex", "macros/algebra.tex", "macros/analysis.tex",
                 "bibliography.bib">>

SupportFiles == {SupportList[k] : k \in 1..Len(SupportList)}

\* Support files in the working area after the first k support fetches
SupportDownloaded(k) == {SupportList[j] : j \in {i \in 1..k : SupportList[i] \in storeSupport}}

MainMissing_never(f) == FALSE

\* if not main_content
MainMissing(f) == ~f.exists \/ f.text = <<>>

DownloadResult_strict(missing) == missing.support = {} /\ missing.chapters = {}

\* A file that is not found is skipped with a warning; after the loops the
\* method returns True
DownloadResult(missing) == TRUE

\* if not self.download_repository_files(branch)
DownloadFailed(ok) == ~ok

DownloadExcept_absorbed == TRUE

\* except Exception as e: logger.error(...); return False
DownloadExcept == FALSE

\* download_repository_files returns ok to process_book
DownloadReturns(ok, why) ==
    /\ Returned("download", ok, why)
    /\ IF DownloadFailed(ok) THEN Leave(FALSE) ELSE pc' = "update" /\ UNCHANGED ret

\* The main file is fetched first; the fetch raises (a store error other than
\* "not found"), finds nothing, or returns the text.  Then the support files
\* and the chapter paths are fetched, each found, not found, or raising.
DownloadRepositoryFiles ==
    /\ pc = "download"
    /\ storeCalls' = storeCalls \cup {"get_file_content"}
    /\ storeFiles' = StoreAfterRequest(get_file_content_method, storeFiles,
                                       <<SourceBranch, "main.tex">>)
    /\ \/ /\ DownloadReturns(DownloadExcept, "store_error")      \* fetching the main file raises
          /\ UNCHANGED <<main, chapters, support, chapter_requests>>
       \/ /\ MainMissing(storeMain)
          /\ DownloadReturns(FALSE, "not_found")
          /\ UNCHANGED <<main, chapters, support, chapter_requests>>
       \/ /\ ~MainMissing(storeMain)
          /\ main' = File(storeMain.text)
          /\ LET fetches == ChapterFetches(storeMain.text, config.include_mode)
                 all == Len(fetches)
                 missing == [support |-> SupportFiles \ storeSupport,
                             chapters |-> {fetches[j] : j \in {i \in 1..all :
                                              ~Saved(StoreContent(fetches[i]))}}]
             IN  \/ \E fail_at \in 1..Len(SupportList) :  \* a support file fetch raises
                       /\ support' = SupportDownloaded(fail_at - 1)
                       /\ UNCHANGED <<chapters, chapter_requests>>
                       /\ DownloadReturns(DownloadExcept, "store_error")
                 \/ \E fail_at \in 1..all :               \* a chapter fetch raises
                       /\ support' = SupportDownloaded(Len(SupportList))
                       /\ chapters' = Downloaded(fetches, fail_at - 1)
                       /\ chapter_requests' = Requests(storeMain.text, config.include_mode, fail_at)
                       /\ DownloadReturns(DownloadExcept, "store_error")
                 \/ /\ support' = SupportDownloaded(Len(SupportList))
                    /\ chapters' = Downloaded(fetches, all)
                    /\ chapter_requests' = Requests(storeMain.text, config.include_mode, all)
                    /\ IF DownloadResult(missing)
                       THEN DownloadReturns(TRUE, "ok")
                       ELSE DownloadReturns(FALSE, "missing")
    /\ UNCHANGED writer
    /\ UNCHANGED <<config, storeMain, storeChapters, storeSupport, branches,
                   dirs, work_dir, pdf, cwd, original_dir, passes, run_i,
                   compile_result, compile_exit, in_handler, before, updates, update_ok,
                   create_answer, exit_code>>

(* update_main_file as a step: reads the main file, lists the chapters
   directory, writes the main file back *)

UpdateEffect ==
    IF work_dir = None \/ ~main.exists
    THEN /\ update_ok' = FALSE
         /\ UNCHANGED <<main, before, updates>>
    ELSE \E listing \in Listings(chapters) :
            LET r == update_main_file(main.text, listing)
            IN  /\ update_ok' = r.ok
                /\ main' = File(r.text)
                /\ before' = main.text
                /\ updates' = IF r.ok THEN updates + 1 ELSE updates

UpdateFailed_never(ok) == FALSE

\* if not self.update_main_file()
UpdateFailed(ok) == ~ok

ProcessBook_update ==
    /\ pc = "update"
    /\ UpdateEffect
    /\ Returned("update", update_ok', IF update_ok' THEN "ok" ELSE "markers")
    /\ IF UpdateFailed(update_ok') THEN Leave(FALSE) ELSE pc' = "compile" /\ UNCHANGED ret
    /\ UNCHANGED <<chapter_requests, writer>>
    /\ UNCHANGED <<config, storeMain, storeChapters, storeSupport, branches, storeFiles,
                   storeCalls, dirs, work_dir, chapters, support, pdf, cwd, original_dir,
                   passes, run_i, compile_result, compile_exit, in_handler,
                   create_answer, exit_code>>

----------------------------------------------------------------------------
(* compile_book *)

Failed == [success |-> FALSE, pdf_path |-> None]

\* The stage at the head of "for i in range(latex_runs)"
LoopHead(i) == IF i < config.latex_runs THEN "resolution" ELSE "check"

AfterPrimary_skip_bibtex(run_bibtex) == LoopHead(0)

\* if self.config.get("run_bibtex", True)
AfterPrimary(run_bibtex) == IF run_bibtex THEN "bibtex" ELSE LoopHead(0)

NextStage_halt(rc, next) == IF rc # 0 THEN "check" ELSE next

\* A non-zero return code is logged and the sequence goes on
NextStage(rc, next) == next

ArtifactFound_clean(pdf_exists, log) ==
    pdf_exists /\ \A k \in 1..Len(log) : log[k].rc = 0

\* if os.path.exists(pdf_path)
ArtifactFound(pdf_exists, log) == pdf_exists

ChdirBack_on_success(orig, area, success) == IF success THEN orig ELSE area

\* os.chdir(original_dir) on each way out
ChdirBack(orig, area, success) == orig

\* The except clause of compile_book
CompileRaised ==
    /\ cwd' = ChdirBack(original_dir, work_dir, FALSE)
    /\ compile_result' = Failed
    /\ compile_exit' = "raised"
    /\ pc' = "compiled"
    /\ UNCHANGED run_i

\* One subprocess.run: the command exits with rc and leaves the artifact
\* present or absent, or the call raises before or after the command ran.
RunPass(cmd, next, i) ==
    \/ \E rc \in {0, 1}, out \in BOOLEAN :
          /\ passes' = Append(passes, [cmd |-> cmd, rc |-> rc])
          /\ pdf' = out
          /\ \/ /\ pc' = NextStage(rc, next)
                /\ run_i' = i
                /\ UNCHANGED <<cwd, compile_result, compile_exit>>
             \/ CompileRaised
    \/ /\ CompileRaised
       /\ UNCHANGED <<passes, pdf>>

CompileBook_enter ==
    /\ pc \in {"idle", "compile"}
    /\ IF work_dir = None
       THEN /\ compile_result' = Failed
            /\ compile_exit' = "no_work_dir"
            /\ pc' = IF pc = "idle" THEN "returned" ELSE "compiled"
            /\ UNCHANGED <<cwd, original_dir>>
       ELSE /\ pc = "compile"
            /\ original_dir' = cwd
            /\ cwd' = work_dir
            /\ pc' = "primary"
            /\ UNCHANGED <<compile_result, compile_exit>>
    /\ UNCHANGED <<chapter_requests, writer>>
    /\ UNCHANGED <<config, storeMain, storeChapters, storeSupport, branches, storeFiles,
                   storeCalls, dirs, work_dir, main, chapters, support, pdf, passes, run_i,
                   ret, in_handler, before, updates, update_ok,
                   stages, create_answer, exit_code>>

CompileBook_primary ==
    /\ pc = "primary"
    /\ RunPass("build", AfterPrimary(config.run_bibtex), 0)
    /\ UNCHANGED <<chapter_requests, writer>>
    /\ UNCHANGED <<config, storeMain, storeChapters, storeSupport, branches, storeFiles,
                   storeCalls, dirs, work_dir, main, chapters, support, original_dir,
                   ret, in_handler, before, updates, update_ok,
                   stages, create_answer, exit_code>>

CompileBook_bibtex ==
    /\ pc = "bibtex"
    /\ RunPass("bibtex", LoopHead(0), 0)
    /\ UNCHANGED <<chapter_requests, writer>>
    /\ UNCHANGED <<config, storeMain, storeChapters, storeSupport, branches, storeFiles,
                   storeCalls, dirs, work_dir, main, chapters, support, original_dir,
                   ret, in_handler, before, updates, update_ok,
                   stages, create_answer, exit_code>>

CompileBook_resolution ==
    /\ pc = "resolution"
    /\ RunPass("build", LoopHead(run_i + 1), run_i + 1)
    /\ UNCHANGED <<chapter_requests, writer>>
    /\ UNCHANGED <<config, storeMain, storeChapters, storeSupport, branches, storeFiles,
                   storeCalls, dirs, work_dir, main, chapters, support, original_dir,
                   ret, in_handler, before, updates, update_ok,
                   stages, create_answer, exit_code>>

CompileBook_check ==
    /\ pc = "check"
    /\ LET found == ArtifactFound(pdf, passes)
       IN  /\ compile_result' = IF found THEN [success |-> TRUE, pdf_path |-> PdfPath]
                                ELSE Failed
           /\ compile_exit' = IF found THEN "found" ELSE "missing"
           /\ cwd' = ChdirBack(original_dir, work_dir, found)
    /\ pc' = "compiled"
    /\ UNCHANGED <<chapter_requests, writer>>
    /\ UNCHANGED <<config, storeMain, storeChapters, storeSupport, branches, storeFiles,
                   storeCalls, dirs, work_dir, main, chapters, support, pdf, original_dir,
                   passes, run_i, ret, in_handler, before, updates, update_ok,
                   stages, create_answer, exit_code>>

CompileFailed_never(r) == FALSE

\* if not success or not pdf_path
CompileFailed(r) == ~r.success \/ r.pdf_path = None

ProcessBook_compiled ==
    /\ pc = "compiled"
    /\ Returned("build", compile_result.success, compile_exit)
    /\ IF CompileFailed(compile_result) THEN Leave(FALSE)
       ELSE pc' = "upload" /\ UNCHANGED ret
    /\ UNCHANGED <<chapter_requests, writer>>
    /\ UNCHANGED <<config, storeMain, storeChapters, storeSupport, branches, storeFiles,
                   storeCalls, dirs, work_dir, main, chapters, support, pdf, cwd,
                   original_dir, passes, run_i, compile_result, compile_exit, in_handler,
                   before, updates, update_ok, create_answer, exit_code>>

----------------------------------------------------------------------------
(* upload_compiled_book *)

\* GitHubAgent.list_branches returns the first page of GET /branches, which
\* holds every branch or leaves some out
BranchPages(bs) == {bs, bs \ {OutputBranch}}

\* What the store answers when create_branch asks for the ref: the ref is
\* created, the ref exists already (422), or another error (also of the GET of
\* the base ref)
PostRefAnswers(bs, name) ==
    (IF name \in bs THEN {"exists"} ELSE {"created"}) \cup {"error"}

\* GitHubAgent.create_branch when POST /git/refs is answered: a new ref, or
\* 422 for a ref that exists (logged, None returned)
create_branch(bs, name) == bs \cup {name}

CreateBranchRaises_on_exists(answer) == answer # "created"

\* except HTTPError: if status_code == 422: return None; raise
CreateBranchRaises(answer) == answer \notin {"created", "exists"}

UploadFailed_never(ok) == FALSE

\* if not self.upload_compiled_book(pdf_path)
UploadFailed(ok) == ~ok

\* upload_compiled_book returns ok to process_book
UploadReturns(ok, why) ==
    /\ Returned("upload", ok, why)
    /\ Leave(~UploadFailed(ok))

UploadCompiledBook ==
    /\ pc = "upload"
    /\ \/ /\ storeCalls' = storeCalls \cup {"list_branches"}      \* list_branches raises
          /\ UploadReturns(FALSE, "store_error")
          /\ UNCHANGED <<branches, create_answer>>
       \/ \E listed \in BranchPages(branches) :
             IF OutputBranch \in listed
             THEN /\ storeCalls' = storeCalls \cup {"list_branches"}
                  /\ UploadReturns(pdf, "ok")                     \* open(pdf_path, 'rb')
                  /\ UNCHANGED <<branches, create_answer>>
             ELSE /\ storeCalls' = storeCalls \cup {"list_branches", "create_branch"}
                  /\ \E answer \in PostRefAnswers(branches, OutputBranch) :
                        /\ create_answer' = answer
                        /\ branches' = IF answer = "created"
                                       THEN create_branch(branches, OutputBranch)
                                       ELSE branches
                        /\ IF CreateBranchRaises(answer)
                           THEN UploadReturns(FALSE, "store_error")
                           ELSE UploadReturns(pdf, "ok")
    /\ UNCHANGED <<chapter_requests, writer>>
    /\ UNCHANGED <<config, storeMain, storeChapters, storeSupport, storeFiles,
                   dirs, work_dir, main, chapters, support, pdf, cwd, original_dir,
                   passes, run_i, compile_result, compile_exit, in_handler,
                   before, updates, update_ok, exit_code>>

----------------------------------------------------------------------------
(* cleanup_working_directory, as process_book calls it before each return *)

WorkDirAfterCleanup_kept(d) == d

\* self.work_dir = None
WorkDirAfterCleanup(d) == None

CleanupWorkingDirectory ==
    /\ pc = "cleanup"
    /\ IF work_dir # None /\ work_dir \in dirs
       THEN \/ /\ dirs' = dirs \ {work_dir}                       \* shutil.rmtree
               /\ work_dir' = WorkDirAfterCleanup(work_dir)
               /\ main' = NoFile
               /\ chapters' = {}
               /\ support' = {}
               /\ pdf' = FALSE
               /\ pc' = "done"
               /\ UNCHANGED <<ret, in_handler>>
            \/ /\ IF in_handler                                   \* shutil.rmtree raises
                  THEN pc' = "escaped" /\ UNCHANGED <<ret, in_handler>>
                  ELSE Handle
               /\ UNCHANGED <<dirs, work_dir, main, chapters, support, pdf>>
       ELSE /\ pc' = "done"
            /\ UNCHANGED <<dirs, work_dir, main, chapters, support, pdf, ret, in_handler>>
    /\ UNCHANGED <<chapter_requests, writer>>
    /\ UNCHANGED <<config, storeMain, storeChapters, storeSupport, branches, storeFiles,
                   storeCalls, cwd, original_dir, passes, run_i,
                   compile_result, compile_exit, before, updates, update_ok,
                   stages, create_answer, exit_code>>

----------------------------------------------------------------------------
(* main() *)

ExitCode_zero(success) == 0

\* if success: return 0 else: return 1; an exception that leaves main() ends
\* the interpreter with status 1
ExitCode(success) == IF success THEN 0 ELSE 1

Main_exit ==
    /\ pc \in {"done", "escaped"}
    /\ exit_code' = <<ExitCode(pc = "done" /\ ret)>>
    /\ pc' = "exited"
    /\ UNCHANGED <<chapter_requests, writer>>
    /\ UNCHANGED <<config, storeMain, storeChapters, storeSupport, branches, storeFiles,
                   storeCalls, dirs, work_dir, main, chapters, support, pdf, cwd,
                   original_dir, passes, run_i, compile_result, compile_exit, ret,
                   in_handler, before, updates, update_ok, stages, create_answer>>

----------------------------------------------------------------------------
(* The pipeline: one process_book call (or one compile_book call) on a new agent *)

StoreChapterFiles == {ch1, ch01, ch2}

\* No process_chapter call
NoWriter == [pc |-> "none"]

\* The state of a new agent and of its surroundings, the inputs left open
NewAgent ==
    /\ pc = "idle"
    /\ storeFiles = {}
    /\ storeCalls = {}
    /\ dirs = {}
    /\ work_dir = None
    /\ main = NoFile
    /\ chapters = {}
    /\ support = {}
    /\ pdf = FALSE
    /\ cwd = HomeDir
    /\ original_dir = None
    /\ passes = <<>>
    /\ run_i = 0
    /\ compile_result = Failed
    /\ compile_exit = "none"
    /\ ret = FALSE
    /\ in_handler = FALSE
    /\ before = <<>>
    /\ updates = 0
    /\ update_ok = FALSE
    /\ stages = <<>>
    /\ create_answer = "none"
    /\ exit_code = <<>>
    /\ chapter_requests = <<>>

Init ==
    /\ config \in Configs
    /\ storeMain \in {NoFile} \cup {File(d) : d \in StoreDocs}
    /\ storeChapters \in [StoreChapterFiles -> ContentKinds]
    /\ storeSupport = SupportFiles
    /\ branches \in {{SourceBranch}, {SourceBranch, OutputBranch}}
    /\ NewAgent
    /\ writer = NoWriter

Next ==
    \/ ProcessBook_setup
    \/ DownloadRepositoryFiles
    \/ ProcessBook_update
    \/ CompileBook_enter
    \/ CompileBook_primary
    \/ CompileBook_bibtex
    \/ CompileBook_resolution
    \/ CompileBook_check
    \/ ProcessBook_compiled
    \/ UploadCompiledBook
    \/ CleanupWorkingDirectory
    \/ Main_exit

Spec == Init /\ [][Next]_vars

----------------------------------------------------------------------------
(* Discovery up to the start of the build, for every set of support files
   the store may hold *)

\* Chapter files and main documents of the discovery runs: with a chapter
\* beyond the probed range, included by the main file
DiscoveryChapterFiles == StoreChapterFiles \cup {ch21}

DiscoveryDocs == StoreDocs \cup {<<BD, NL, Inc(ch21), NL, X, NL, ED, NL>>}

InitDiscovery ==
    /\ config \in {c \in Configs : c.latex_runs = 0 /\ ~c.run_bibtex}
    /\ storeMain \in {NoFile} \cup {File(d) : d \in DiscoveryDocs}
    /\ storeChapters \in [DiscoveryChapterFiles -> ContentKinds]
    /\ storeSupport \in SUBSET SupportFiles
    /\ branches = {SourceBranch}
    /\ NewAgent
    /\ writer = NoWriter

NextDiscovery ==
    \/ ProcessBook_setup
    \/ DownloadRepositoryFiles
    \/ ProcessBook_update
    \/ CompileBook_enter

SpecDiscovery == InitDiscovery /\ [][NextDiscovery]_vars

----------------------------------------------------------------------------
(* Calls made on one agent by its user: setup_working_directory and
   cleanup_working_directory between process_book calls; process_book runs
   up to the start of the build *)

\* agent.setup_working_directory(): self.work_dir = tempfile.mkdtemp(...)
SetupCall ==
    /\ pc = "idle"
    /\ Cardinality(TempNames \ dirs) > 1      \* a name is left for process_book
    /\ dirs' = dirs \cup {FreshDir}
    /\ work_dir' = FreshDir
    /\ UNCHANGED <<chapter_requests, writer>>
    /\ UNCHANGED <<pc, config, storeMain, storeChapters, storeSupport, branches,
                   storeFiles, storeCalls, main, chapters, support, pdf, cwd,
                   original_dir, passes, run_i, compile_result, compile_exit, ret,
                   in_handler, before, updates, update_ok, stages, create_answer,
                   exit_code>>

\* agent.cleanup_working_directory() before or after process_book
CleanupCall ==
    /\ pc \in {"idle", "done"}
    /\ work_dir # None /\ work_dir \in dirs
    /\ dirs' = dirs \ {work_dir}                \* shutil.rmtree
    /\ work_dir' = None
    /\ UNCHANGED <<chapter_requests, writer>>
    /\ UNCHANGED <<pc, config, storeMain, storeChapters, storeSupport, branches,
                   storeFiles, storeCalls, main, chapters, support, pdf, cwd,
                   original_dir, passes, run_i, compile_result, compile_exit, ret,
                   in_handler, before, updates, update_ok, stages, create_answer,
                   exit_code>>

InitCalls ==
    /\ config \in {c \in Configs : c.latex_runs = 0 /\ ~c.run_bibtex}
    /\ storeMain \in {NoFile} \cup {File(d) : d \in StoreDocs}
    /\ storeChapters \in [StoreChapterFiles -> ContentKinds]
    /\ storeSupport = SupportFiles
    /\ branches = {SourceBranch}
    /\ NewAgent
    /\ writer = NoWriter

NextCalls ==
    \/ SetupCall
    \/ CleanupCall
    \/ ProcessBook_setup
    \/ DownloadRepositoryFiles
    \/ ProcessBook_update
    \/ CleanupWorkingDirectory

SpecCalls == InitCalls /\ [][NextCalls]_vars

----------------------------------------------------------------------------
(* ChapterWriterAgent.process_chapter: one call.  The variable writer holds
   the call's inputs, its position, what it added to the store, and how it
   ended *)

compilerVars == <<pc, config, storeMain, storeChapters, storeSupport, branches,
                  storeFiles, storeCalls, dirs, work_dir, main, chapters, support,
                  pdf, cwd, original_dir, passes, run_i, compile_result, compile_exit,
                  ret, in_handler, before, updates, update_ok, stages, create_answer,
                  exit_code, chapter_requests>>

\* A text the caller or a file gives: None / missing, "", or text
OutlineKinds == {"absent", "empty", "text"}

\* The inputs of a call and the state of its surroundings
WriterInputs ==
    [outline_text : OutlineKinds,          \* the outline_text argument
     outline_path : BOOLEAN,               \* an outline_path argument is given
     store_outline : OutlineKinds \cup {"error"},  \* get_file_content(outline_path)
     local_outline : OutlineKinds,         \* the local file outline_path
     branch_taken : BOOLEAN,               \* the store has a branch of branch_name
     base_has_file : BOOLEAN]              \* the base branch has the chapter file

WriterStart(in) ==
    [pc |-> "start", in |-> in, outline |-> "absent",
     branch |-> FALSE, file |-> FALSE, pr |-> FALSE, result |-> "none"]

\* return None
WriterReturnsNone(w) == [w EXCEPT !.pc = "returned", !.result = "None"]

\* An exception leaves process_chapter
WriterRaises(w) == [w EXCEPT !.pc = "raised", !.result = "raised"]

\* if not outline (None and "" alike)
NoOutline(kind) == kind # "text"

\* The outline lookup: the argument, else the store, else the local file
ProcessChapter_outline ==
    /\ writer.pc = "start"
    /\ LET in == writer.in
           have(o) == IF NoOutline(o) THEN WriterReturnsNone(writer)
                      ELSE [writer EXCEPT !.pc = "branch", !.outline = o]
       IN  writer' =
             IF in.outline_path /\ NoOutline(in.outline_text)
             THEN IF in.store_outline = "error"
                  THEN WriterReturnsNone(writer)              \* except: return None
                  ELSE IF ~NoOutline(in.store_outline)
                  THEN have(in.store_outline)
                  ELSE IF in.local_outline = "absent"
                  THEN WriterReturnsNone(writer)              \* open() raises
                  ELSE have(in.local_outline)
             ELSE have(in.outline_text)
    /\ UNCHANGED compilerVars

\* self.github.create_branch(branch_name)
ProcessChapter_branch ==
    /\ writer.pc = "branch"
    /\ \E answer \in PostRefAnswers(IF writer.in.branch_taken THEN {"chapter"} ELSE {},
                                    "chapter") :
          writer' = IF CreateBranchRaises(answer) THEN WriterRaises(writer)
                    ELSE [writer EXCEPT !.pc = "generate",
                                        !.branch = (answer = "created")]
    /\ UNCHANGED compilerVars

\* generate_chapter_content: the content, or the client's exception re-raised
ProcessChapter_generate ==
    /\ writer.pc = "generate"
    /\ \/ writer' = [writer EXCEPT !.pc = "commit"]
       \/ writer' = WriterRaises(writer)
    /\ UNCHANGED compilerVars

\* create_or_update_file(update=False): the PUT creates the file, or fails; it
\* fails when the branch has the file already (no sha is sent)
ProcessChapter_commit ==
    /\ writer.pc = "commit"
    /\ \/ /\ ~writer.in.base_has_file
          /\ writer' = [writer EXCEPT !.pc = "pr", !.file = TRUE]
       \/ writer' = WriterRaises(writer)
    /\ UNCHANGED compilerVars

\* create_pull_request, then return pr
ProcessChapter_pull_request ==
    /\ writer.pc = "pr"
    /\ \/ writer' = [writer EXCEPT !.pc = "returned", !.pr = TRUE, !.result = "pr"]
       \/ writer' = WriterRaises(writer)
    /\ UNCHANGED compilerVars

InitChapter ==
    /\ config = [run_bibtex |-> FALSE, latex_runs |-> 0, include_mode |-> "LoadDefault"]
    /\ storeMain = NoFile
    /\ storeChapters = [f \in StoreChapterFiles |-> "absent"]
    /\ storeSupport = {}
    /\ branches = {SourceBranch}
    /\ NewAgent
    /\ writer \in {WriterStart(in) : in \in WriterInputs}

NextChapter ==
    \/ ProcessChapter_outline
    \/ ProcessChapter_branch
    \/ ProcessChapter_generate
    \/ ProcessChapter_commit
    \/ ProcessChapter_pull_request

SpecChapter == InitChapter /\ [][NextChapter]_vars

----------------------------------------------------------------------------
(* The assembler alone: update_main_file called again and again on one
   working area *)

InitAsm ==
    /\ pc = "asm"
    /\ config \in {c \in Configs : c.latex_runs = 0 /\ ~c.run_bibtex
                                   /\ c.include_mode = "LoadDefault"}
    /\ storeMain = NoFile
    /\ storeChapters = [f \in StoreChapterFiles |-> "absent"]
    /\ storeSupport = {}
    /\ branches = {SourceBranch}
    /\ storeFiles = {}
    /\ storeCalls = {}
    /\ dirs = {"tmp1"}
    /\ work_dir = "tmp1"
    /\ main \in {File(d) : d \in AsmDocs}
    /\ chapters \in SUBSET ChapterUniverse
    /\ support = {}
    /\ pdf = FALSE
    /\ cwd = HomeDir
    /\ original_dir = None
    /\ passes = <<>>
    /\ run_i = 0
    /\ compile_result = Failed
    /\ compile_exit = "none"
    /\ ret = FALSE
    /\ in_handler = FALSE
    /\ before = <<>>
    /\ updates = 0
    /\ update_ok = FALSE
    /\ stages = <<>>
    /\ create_answer = "none"
    /\ exit_code = <<>>
    /\ chapter_requests = <<>>
    /\ writer = NoWriter

UpdateMainFile ==
    /\ pc = "asm"
    /\ updates < MaxUpdates
    /\ UpdateEffect
    /\ UNCHANGED <<chapter_requests, writer>>
    /\ UNCHANGED <<pc, config, storeMain, storeChapters, storeSupport, branches,
                   storeFiles, storeCalls, dirs, work_dir, chapters, support, pdf, cwd,
                   original_dir, passes, run_i, compile_result, compile_exit, ret,
                   in_handler, stages, create_answer, exit_code>>

NextAsm == UpdateMainFile

SpecAsm == InitAsm /\ [][NextAsm]_vars

----------------------------------------------------------------------------
(* Properties of the build orchestrator and of process_book (Spec) *)

Cmds(log) == [k \in 1..Len(log) |-> log[k].cmd]

\* Primary -> [Bibliography] -> Resolution(1) .. Resolution(latex_runs)
ExpectedCmds(c) ==
    <<"build">> \o (IF c.run_bibtex THEN <<"bibtex">> ELSE <<>>)
                \o [k \in 1..c.latex_runs |-> "build"]

ExpectedCount(c) == 1 + (IF c.run_bibtex THEN 1 ELSE 0) + c.latex_runs

IsPrefix(s, t) == Len(s) <= Len(t) /\ s = SubSeq(t, 1, Len(s))

\* compile_book ran every configured pass and reached its terminal check
AllPassesRan == compile_exit \in {"found", "missing"}

CompileRunning == pc \in {"primary", "bibtex", "resolution", "check"}

HasBegin(d) == Find(d, BD, 1) # 0
HasEnd(d) == Find(d, ED, 1) # 0

\* C1: once every configured pass has run, compile_book returns (True, pdf_path)
\* exactly when <main_name>.pdf exists in the working area, whatever the exit
\* codes of the passes were.
C1_SuccessIffArtifact ==
    (pc = "compiled" /\ AllPassesRan) =>
        /\ compile_result.success <=> pdf
        /\ compile_result.success => compile_result.pdf_path = PdfPath
        /\ ~compile_result.success => compile_result.pdf_path = None

\* C1 witness: success reported although the primary pass exited non-zero
C1_Witness ==
    /\ pc = "compiled" /\ AllPassesRan
    /\ compile_result.success /\ pdf
    /\ Len(passes) >= 2 /\ passes[1].rc # 0

\* C3: a main document without the begin marker or without the end marker makes
\* process_book fail, and no external command is run.
C3_NoCommandWithoutMarkers ==
    (~HasBegin(storeMain.text) \/ ~HasEnd(storeMain.text)) =>
        /\ passes = <<>>
        /\ ~CompileRunning /\ pc # "upload"
        /\ pc = "done" => ~ret

\* C3 witness: the assembler ran on a document with a missing marker and
\* process_book returned
C3_Witness ==
    /\ pc = "done" /\ ~ret
    /\ storeMain.exists /\ storeMain.text # <<>>
    /\ ~HasEnd(storeMain.text) /\ HasBegin(storeMain.text)
    /\ before = storeMain.text /\ ~update_ok

\* C5: a pass that exits non-zero does not halt the sequence: when the terminal
\* check is reached, the passes run after it are all the configured later ones.
C5_FailingPassDoesNotHalt ==
    (pc = "check" \/ AllPassesRan) =>
        \A k \in 1..Len(passes) :
            passes[k].rc # 0 =>
                /\ Len(passes) = ExpectedCount(config)
                /\ SubSeq(Cmds(passes), k + 1, Len(passes))
                     = SubSeq(ExpectedCmds(config), k + 1, ExpectedCount(config))

\* C5 witness: the primary pass failed and bibliography and two resolution
\* passes were run after it
C5_Witness ==
    /\ pc = "check"
    /\ config.run_bibtex /\ config.latex_runs = 2
    /\ passes[1].rc # 0
    /\ Len(passes) = 4

\* C6: the commands run are a prefix of primary, bibliography (iff run_bibtex),
\* latex_runs resolution passes, in this order, and the whole of it at the
\* terminal check: 1 + (1 if run_bibtex) + latex_runs commands.
C6_PassSequence ==
    /\ IsPrefix(Cmds(passes), ExpectedCmds(config))
    /\ (pc = "check" \/ AllPassesRan) =>
          /\ Cmds(passes) = ExpectedCmds(config)
          /\ Len(passes) = ExpectedCount(config)
    /\ pc = "bibtex" => Len(passes) = 1
    /\ pc = "resolution" => Len(passes) = ExpectedCount(config) - config.latex_runs + run_i

\* C6 witness: no bibliography pass and one resolution pass give two commands
C6_Witness ==
    /\ pc = "check"
    /\ ~config.run_bibtex /\ config.latex_runs = 1
    /\ Cmds(passes) = <<"build", "build">>

\* C7: compile_book leaves the process working directory as it found it on
\* every way out, and the passes run with the working area as working directory.
C7_WorkingDirectoryRestored ==
    /\ ~CompileRunning => cwd = HomeDir
    /\ CompileRunning => (cwd = work_dir /\ work_dir # None /\ original_dir = HomeDir)

\* C7 witness: compile_book returned through its except clause after a command ran
C7_Witness ==
    /\ pc = "compiled" /\ compile_exit = "raised"
    /\ passes # <<>>
    /\ cwd = HomeDir /\ work_dir # None

\* C8: when process_book has returned, the working area of the run is gone and
\* work_dir is unset.
C8_WorkingAreaDestroyed ==
    pc = "done" => (work_dir = None /\ dirs = {} /\ ~main.exists /\ ~pdf)

\* C8 witness: process_book returned failure from its except clause after the
\* first removal of the working area had raised
C8_Witness ==
    /\ pc = "done" /\ ~ret /\ in_handler
    /\ compile_exit = "found"
    /\ storeCalls # {}

\* The end-to-end run: both markers, no directives, chapters 1 and 2 in the
\* store, no bibliography pass, one resolution pass, every pass exits 0
EndToEnd ==
    /\ storeMain = File(<<BD, NL, X, NL, ED>>)
    /\ storeChapters[ch1] = "text" /\ storeChapters[ch2] = "text"
    /\ storeChapters[ch01] = "absent"
    /\ ~config.run_bibtex /\ config.latex_runs = 1
    /\ Len(passes) = 2
    /\ \A k \in 1..Len(passes) : passes[k].rc = 0

\* C9: after the successful end-to-end run the output branch of the store holds
\* the compiled artifact.
C9_ArtifactPublished ==
    (EndToEnd /\ pc = "done" /\ ret) =>
        (OutputBranch \in branches /\ <<OutputBranch, PdfPath>> \in storeFiles)

\* C10: when the artifact is missing after all passes, process_book returns
\* failure and calls none of list_branches, create_branch, create_or_update_file.
C10_NoPublishWithoutArtifact ==
    compile_exit = "missing" =>
        /\ storeCalls \cap {"list_branches", "create_branch", "create_or_update_file"} = {}
        /\ pc # "upload"
        /\ pc = "done" => ~ret

\* C10 witness: process_book returned after passes that left no artifact
C10_Witness ==
    /\ pc = "done" /\ ~ret
    /\ compile_exit = "missing"
    /\ Len(passes) = ExpectedCount(config) /\ Len(passes) >= 2

\* Adapter methods that publish
PublishCalls == {"list_branches", "create_branch", "create_or_update_file"}

\* The stage of process_book that returned last, with what it returned
LastStage == stages[Len(stages)]

\* upload_compiled_book returned failure
UploadReportedFailure == Len(stages) = 4 /\ ~stages[4].ok

\* C11: when create_branch is answered "the branch exists already" (a second
\* create of the same name, reached when the listing did not show the branch)
\* the call returns normally: upload_compiled_book reports success, and the
\* store holds the branches it held before.
C11_ExistingBranchIsNoError ==
    create_answer = "exists" =>
        /\ branches = {SourceBranch, OutputBranch}
        /\ LastStage = Stage("upload", TRUE, "ok")
        /\ (pc = "done" /\ ~in_handler) => ret

\* C11 witness: the output branch existed, the listing left it out,
\* create_branch was answered "exists" and process_book returned success
C11_Witness ==
    /\ pc = "done" /\ ret
    /\ create_answer = "exists"
    /\ "create_branch" \in storeCalls

\* C12 as stated: main() exits with 0 exactly when the build result is
\* success, whatever publishing did.
C12_ExitCodeIsBuildResult ==
    pc = "exited" => (exit_code = <<0>> <=> compile_result.success)

\* C12: main() exits with 0 exactly when the build succeeded, the publishing
\* step reported success and no removal of the working area raised; it exits
\* with 1 otherwise, also when only publishing failed.
C12_ExitCodeIsPipelineResult ==
    pc = "exited" =>
        /\ exit_code \in {<<0>>, <<1>>}
        /\ exit_code = <<0>> <=>
              (compile_result.success /\ Len(stages) = 4 /\ stages[4].ok /\ ~in_handler)

\* C12 witness: the build succeeded, publishing failed, main() exited with 1
C12_Witness ==
    /\ pc = "exited"
    /\ compile_result.success
    /\ UploadReportedFailure
    /\ exit_code = <<1>>

\* C13 as stated: after a failed publish process_book returns failure and
\* the artifact still exists on disk.
C13_ArtifactLeftAfterFailedPublish ==
    (pc = "done" /\ UploadReportedFailure) => (~ret /\ pdf)

\* C13: a store error in publishing makes upload_compiled_book report failure
\* with nothing written to the store; the artifact exists when it returns, and
\* process_book removes the working area, artifact included, before it returns
\* failure.
C13_FailedPublishReported ==
    UploadReportedFailure =>
        /\ stages[4].why = "store_error"
        /\ storeFiles = {}
        /\ pc = "cleanup" => (~ret /\ pdf)
        /\ pc = "done" => (~ret /\ ~pdf /\ dirs = {})

\* C13 witness: process_book returned after a failed publish
C13_Witness ==
    /\ pc = "done" /\ ~ret
    /\ UploadReportedFailure
    /\ compile_exit = "found"
    /\ ~pdf

\* C14: when the store has no main file on the source branch, discovery
\* reports failure, update_main_file is not run, no command is run, no
\* publishing method is called, and process_book returns failure.
C14_NoMasterDocumentAborts ==
    ~storeMain.exists =>
        /\ Len(stages) <= 1
        /\ Len(stages) = 1 => stages[1] = Stage("download", FALSE, LastStage.why)
        /\ pc \notin {"update", "compile", "primary", "bibtex", "resolution",
                      "check", "compiled", "upload"}
        /\ updates = 0 /\ main = NoFile
        /\ passes = <<>>
        /\ storeCalls \cap PublishCalls = {}
        /\ pc = "done" => ~ret

\* C14 witness: process_book returned after the main file was not found
C14_Witness ==
    /\ pc = "done" /\ ~ret
    /\ ~storeMain.exists
    /\ stages = <<Stage("download", FALSE, "not_found")>>

\* C15: when the main file exists (with content) and no fetch raises,
\* download_repository_files returns success whatever support files and
\* chapters the store lacks; update_main_file runs next, and compile_book
\* after it when the markers are there.
C15_MissingFilesAreSkipped ==
    (Len(stages) >= 1 /\ storeMain.exists /\ storeMain.text # <<>>
        /\ stages[1].why # "store_error") =>
        /\ stages[1] = Stage("download", TRUE, "ok")
        /\ support = storeSupport
        /\ Len(stages) = 1 => pc = "update"
        /\ (Len(stages) = 2 /\ stages[2].ok) => pc \in {"compile", "primary"}

\* C15 witness: the store holds the main file alone, no support file and no
\* chapter; discovery succeeded and compile_book has started
C15_Witness ==
    /\ pc = "primary"
    /\ storeSupport = {}
    /\ \A f \in StoreChapterFiles : storeChapters[f] = "absent"
    /\ support = {} /\ chapters = {}
    /\ stages[1].ok

\* C16: download_repository_files leaves the store's branches and the store's
\* files as they were, on every outcome.
C16_DiscoveryOnlyReads ==
    [][pc = "download" =>
          /\ branches' = branches
          /\ storeFiles' = storeFiles
          /\ storeMain' = storeMain
          /\ storeChapters' = storeChapters
          /\ storeSupport' = storeSupport]_vars

\* C16 witness: discovery has fetched the main file, support files and a
\* chapter
C16_Witness ==
    /\ pc = "update"
    /\ "get_file_content" \in storeCalls
    /\ chapters # {} /\ support # {}
    /\ storeFiles = {}

\* Chapter files named by the \include directives of a text
IncludedSet(s) == {IncludedFiles(s)[k] : k \in 1..Len(IncludedFiles(s))}

\* update_main_file has run on the downloaded files and returned True
Assembled == Len(stages) = 2 /\ stages[2].ok

\* C21: under the include pattern of load_config's defaults, every chapter
\* that the store's main file includes and that the store holds (with
\* content) has an \include directive in the assembled main file.
C21_ExplicitIncludesKept ==
    (Assembled /\ config.include_mode = "LoadDefault") =>
        \A f \in IncludedSet(storeMain.text) :
            StoreContent(f) = "text" => f \in IncludedSet(main.text)

\* The requests made by the loop of download_all_chapters, in order
ProbeRequests == SelectSeq(chapter_requests, LAMBDA r : r.probe)

\* C25: download_all_chapters asks the store for chapters/chapter1.tex up to
\* chapters/chapter20.tex, in this order, each once, and for no other path;
\* when no fetch raises it asks for all twenty.
C25_ProbesAreOneToTwenty ==
    /\ Len(ProbeRequests) <= ProbeLimit
    /\ \A k \in 1..Len(ProbeRequests) : ProbeRequests[k].file = ChapterFile(k, FALSE)
    /\ (Len(stages) >= 1 /\ stages[1].ok) => Len(ProbeRequests) = ProbeLimit

\* C25 witness: the store holds chapter 21, the main file includes it and
\* discovery asked for it on that account; the probe loop asked for 1..20
C25_Witness ==
    /\ pc = "update"
    /\ storeChapters[ch21] = "text"
    /\ Len(chapter_requests) = ProbeLimit + 1
    /\ chapter_requests[1] = [file |-> ch21, probe |-> FALSE]
    /\ Len(ProbeRequests) = ProbeLimit

\* C27: every chapter chapters/chapter<n>.tex, n in 1..20, that the store
\* holds, with or without content, is in the working area and has an \include
\* directive in the assembled main file.
C27_StoredChaptersIncluded ==
    Assembled =>
        \A n \in 1..ProbeLimit :
            StoreContent(ChapterFile(n, FALSE)) # "absent" =>
                /\ ChapterFile(n, FALSE) \in chapters
                /\ ChapterFile(n, FALSE) \in IncludedSet(main.text)

\* C29: when a fetch of discovery raises, download_repository_files returns
\* False, no later stage runs, and process_book returns False with the
\* working area removed.
C29_StoreErrorAborts ==
    (Len(stages) >= 1 /\ stages[1].why = "store_error") =>
        /\ stages = <<Stage("download", FALSE, "store_error")>>
        /\ pc \in {"cleanup", "done", "escaped", "exited"}
        /\ updates = 0
        /\ passes = <<>>
        /\ storeCalls = {"get_file_content"}
        /\ pc = "done" => (~ret /\ dirs = {} /\ work_dir = None)

\* C29 witness: a chapter fetch raised after the main file was saved, and
\* process_book returned
C29_Witness ==
    /\ pc = "done" /\ ~ret
    /\ stages = <<Stage("download", FALSE, "store_error")>>
    /\ chapter_requests # <<>>
    /\ dirs = {}

\* C26: at most one directory made by the agent exists at any time, and none
\* exists once the agent holds no working directory, as after every return of
\* process_book or cleanup_working_directory.
C26_NoDirectoryLeaked ==
    /\ Cardinality(dirs) <= 1
    /\ work_dir = None => dirs = {}

StageOrder == <<"download", "update", "build", "upload">>

\* C19: the stages return in the order download, update, build, upload, each
\* after the one before it reported success; update_main_file runs only after
\* a successful download, a command only after a successful update, a
\* publishing call only after a successful build.
C19_StagesShortCircuit ==
    /\ Len(stages) <= Len(StageOrder)
    /\ \A k \in 1..Len(stages) :
          /\ stages[k].stage = StageOrder[k]
          /\ k > 1 => stages[k - 1].ok
    /\ (pc = "update" \/ updates > 0) => (Len(stages) >= 1 /\ stages[1].ok)
    /\ (pc \in {"compile", "primary", "bibtex", "resolution", "check", "compiled"}
          \/ passes # <<>>) => (Len(stages) >= 2 /\ stages[2].ok)
    /\ (pc = "upload" \/ storeCalls \cap PublishCalls # {}) =>
          (Len(stages) >= 3 /\ stages[3].ok)

\* C19 witness: a run that stopped after a failed update, and nothing later ran
C19_Witness ==
    /\ pc = "done"
    /\ Len(stages) = 2 /\ stages[1].ok /\ ~stages[2].ok
    /\ passes = <<>>
    /\ storeCalls = {"get_file_content"}

\* C20: no exception leaves process_book.
C20_NoExceptionEscapes == pc # "escaped"

----------------------------------------------------------------------------
(* Properties of the assembler *)

\* Chapter files named by the directives after the generated header
BlockFiles(s) ==
    LET h == Find(s, HDR, 1)
    IN  IF h = 0 THEN <<>> ELSE IncludedFiles(SubSeq(s, h + 1, Len(s)))

\* C2: a second run of update_main_file on its own output with the same
\* chapter files leaves the main file byte-identical.
C2_AssemblerFixedPoint ==
    (updates >= 2 /\ update_ok) => main.text = before

\* C4: the directives of the generated block are in strictly ascending order
\* of chapter ordinal.
C4_BlockStrictlyAscending ==
    (updates >= 1 /\ update_ok) =>
        LET b == BlockFiles(main.text)
        IN  \A j, k \in 1..Len(b) : j < k => b[j].n < b[k].n

\* Number of occurrences of tok in d
Count(d, tok) == Cardinality({k \in 1..Len(d) : d[k] = tok})

\* The text after the first \end{document}
ClosingMatter(d) == Slice(d, Find(d, ED, 1) + 1, Len(d))

\* C17: what follows \end{document} in the input follows \end{document} in
\* the output (leading and trailing newlines apart).
C17_ClosingMatterPreserved ==
    (updates >= 1 /\ update_ok) =>
        Strip(ClosingMatter(main.text)) = Strip(ClosingMatter(before))

\* C18: a main file written by update_main_file has one \begin{document} and
\* one \end{document}, the first before the second.
C18_OneMarkerPair ==
    (updates >= 1 /\ update_ok) =>
        /\ Count(main.text, BD) = 1
        /\ Count(main.text, ED) = 1
        /\ Find(main.text, BD, 1) < Find(main.text, ED, 1)

\* C22: after any number of runs of update_main_file the main file has one
\* \include directive for each chapter file of the working area and none for
\* any other chapter.
C22_OneDirectivePerFragment ==
    (updates >= 1 /\ update_ok) =>
        \A f \in ChapterUniverse :
            Count(main.text, Inc(f)) = IF f \in chapters THEN 1 ELSE 0

\* C23: no two directives of the generated block have the same chapter
\* ordinal.
C23_BlockOrdinalsUnique ==
    (updates >= 1 /\ update_ok) =>
        LET b == BlockFiles(main.text)
        IN  \A j, k \in 1..Len(b) : j # k => b[j].n # b[k].n

\* C24: after the first run the main file has the header of the generated
\* block exactly when the working area has at least one chapter file.
C24_BlockIffFragments ==
    (updates = 1 /\ update_ok) =>
        (Find(main.text, HDR, 1) # 0 <=> chapters # {})

\* An update_main_file call has been made on a main file with text
Attempted == before # <<>>

\* C28: update_main_file returns True only when \begin{document} comes before
\* the first \end{document}; when it returns False the main file is as it was.
C28_ReversedMarkersRejected ==
    Attempted =>
        /\ update_ok => Find(before, BD, 1) < Find(before, ED, 1)
        /\ ~update_ok => main.text = before

----------------------------------------------------------------------------
(* Properties of ChapterWriterAgent.process_chapter (SpecChapter) *)

\* process_chapter has ended without a pull request to return
WriterFailed == writer.pc \in {"returned", "raised"} /\ writer.result # "pr"

\* C30: when process_chapter has failed the store has no branch, file or pull
\* request from the call, and a branch made by the call exists only together
\* with its chapter file and its pull request once the call has ended.
C30_ChapterAllOrNothing ==
    /\ WriterFailed => (~writer.branch /\ ~writer.file /\ ~writer.pr)
    /\ (writer.pc \in {"returned", "raised"} /\ writer.branch) =>
          (writer.file /\ writer.pr)

====
